---- MODULE Spec2Model ----
(***************************************************************************)
(* Model of train_kfold in gbm_for_event_localization/train_cls_xgb.py.    *)
(*                                                                         *)
(* One call of train_kfold is a sequential program; pc is the position of  *)
(* the call.  xgboost and scikit-learn are external: a trained Booster is  *)
(* drawn from a small universe of boosters, each of which is a fixed       *)
(* function of the feature columns BY POSITION (as a Booster trained on a  *)
(* numpy matrix is), and a splitter yields any fold sequence it may yield. *)
(* Floating point values are modelled by exact numbers; a mean is kept as  *)
(* the pair (sum, count).                                                  *)
(***************************************************************************)
EXTENDS Integers, Sequences, FiniteSets, TLC

VARIABLES
    pc,             \* position of the call
    err,            \* the exception that ended the call ("" while none)
    \* ---- parameters of the call (line 39)
    print_imp, x_train_df, x_test_arg, folds, stratify, skip_checks,
    \* ---- locals of the call
    x_test,         \* the name x_test, which line 84 and line 89 rebind
    columns, columns_exists, d_test, splits, p_train, ps_test, models,
    scores, imps, fold_i, train_kf, valid_kf, d_train, mdl, imp, p_valid,
    p_test,
    \* ---- what the call did to its collaborators
    consumed,       \* the fold pairs the for statement has taken, in order
    writes,         \* how often line 153 has stored to each position of p_train
    kfold_calls,    \* constructions of KFold / StratifiedKFold
    trained         \* calls of xgb.train

params == <<print_imp, x_train_df, x_test_arg, folds, stratify, skip_checks>>
locals == <<x_test, columns, columns_exists, d_test, splits, p_train, ps_test, models,
            scores, imps, fold_i, train_kf, valid_kf, d_train, mdl, imp,
            p_valid, p_test>>
effects == <<consumed, writes, kfold_calls, trained>>
vars == <<pc, err, params, locals, effects>>

----------------------------------------------------------------------------
(* Bounds *)

NumTrain == 2
NumTest == 2
MaxFolds == 2

----------------------------------------------------------------------------
(* The data of a call *)

\* x_train.columns.values when x_train is a DataFrame
FrameColumns == <<"f1", "f2">>
\* np.arange(x_train.shape[1]).astype(str) when it is not
ArrayColumns == <<"0", "1">>
NumFeatures == Len(FrameColumns)
\* the position of a feature in the training matrix; "f3" is not a training feature
FeatureIndex == [f \in {"f1", "f2", "f3"} |-> CASE f = "f1" -> 1 [] f = "f2" -> 2 [] f = "f3" -> 3]

TrainRows == 0 .. (NumTrain - 1)
TestRows == 1 .. NumTest

\* x_train[i] as the sequence of its column values
x_train(i) == [j \in 1 .. NumFeatures |-> 1 + i + 2 * j]
\* y_train[i]
y_train(i) == i % 2
\* row r of a test matrix whose columns hold the features cols, in that order
TestRow(cols, r) == [j \in 1 .. Len(cols) |-> 3 * r + 5 * FeatureIndex[cols[j]]]

\* x_test = None
NoTest == [given |-> FALSE, df |-> FALSE, cols |-> <<>>]
\* the test sets a caller may pass: a DataFrame (df) or an array whose
\* columns hold these features in this order
TestColumnOrders == {<<"f1", "f2">>, <<"f2", "f1">>, <<"f1", "f2", "f3">>, <<"f2">>}
TestSets == {NoTest} \cup
    {[given |-> TRUE, df |-> d, cols |-> c] : d \in BOOLEAN, c \in TestColumnOrders}

\* a (train, validation) pair as the splitters of sklearn yield them
FoldPairs == {[train |-> TrainRows \ v, valid |-> v] :
                 v \in (SUBSET TrainRows) \ {{}, TrainRows}}

RECURSIVE SeqsUpTo(_, _)
SeqsUpTo(S, n) ==
    IF n = 0 THEN {<<>>}
    ELSE LET shorter == SeqsUpTo(S, n - 1)
         IN shorter \cup {Append(s, x) : s \in {t \in shorter : Len(t) = n - 1}, x \in S}

\* folds: an integer, or a pre-built sequence of pairs
FoldInputs ==
    {[int |-> TRUE, k |-> k, seq |-> <<>>] : k \in 1 .. (NumTrain + 1)} \cup
    {[int |-> FALSE, k |-> 0, seq |-> s] : s \in SeqsUpTo(FoldPairs, MaxFolds)}

PrintImpInputs == {"every", "final", "None", "invalid"}

----------------------------------------------------------------------------
(* The backend *)

\* A Booster: the number of splits it makes on each column position.
Boosters == {<<0, 1>>, <<2, 1>>}
NoBooster == <<>>

RECURSIVE SumOver(_, _)
SumOver(f, S) ==
    IF S = {} THEN 0
    ELSE LET x == CHOOSE y \in S : TRUE IN f[x] + SumOver(f, S \ {x})

\* mdl.predict on one row: a function of the columns by position; a column
\* the matrix does not have is missing
Predict(m, row) ==
    SumOver([j \in 1 .. Len(m) |-> IF j <= Len(row) THEN m[j] * row[j] ELSE 0],
            1 .. Len(m))

Abs(x) == IF x < 0 THEN -x ELSE x

\* mdl.best_score: the evaluation metric on the validation matrix
BestScore(m, valid) ==
    SumOver([i \in valid |-> Abs(Predict(m, x_train(i)) - y_train(i))], valid)

\* model.get_fscore(fmap): the features the model splits on, by name
GetFscore(m, features) ==
    LET used == {j \in 1 .. Len(m) : m[j] > 0}
    IN [f \in {features[j] : j \in used} |->
            m[CHOOSE j \in used : features[j] = f]]

\* no entry yet: defaultdict(int) before any key is set, an unbound array
EmptyMap == [f \in {} |-> 0]

RECURSIVE SortedItems(_, _)
\* sorted(importance.items(), key=lambda x: x[1], reverse=True): the largest
\* importance first; the sort is stable, so equal ones keep the order of features
SortedItems(importance, features) ==
    IF DOMAIN importance = {} THEN <<>>
    ELSE LET D == DOMAIN importance
             Pos(f) == CHOOSE j \in 1 .. Len(features) : features[j] = f
             first == CHOOSE f \in D : \A g \in D :
                          \/ importance[f] > importance[g]
                          \/ importance[f] = importance[g] /\ Pos(f) <= Pos(g)
         IN <<<<first, importance[first]>>>> \o
            SortedItems([g \in D \ {first} |-> importance[g]], features)

\* get_importances(model, features)
get_importances(model, features) == SortedItems(GetFscore(model, features), features)

\* imps[f] = i: the total replaced, not added to
AddImportance_Overwrites(totals, f, i) ==
    [g \in DOMAIN totals \cup {f} |-> IF g = f THEN i ELSE totals[g]]

\* imps[f] += i on a defaultdict(int)
AddImportance(totals, f, i) ==
    [g \in DOMAIN totals \cup {f} |->
        IF g = f THEN (IF f \in DOMAIN totals THEN totals[f] ELSE 0) + i
        ELSE totals[g]]

RECURSIVE Accumulate(_, _)
\* for f, i in imp: imps[f] += i
Accumulate(totals, items) ==
    IF items = <<>> THEN totals
    ELSE Accumulate(AddImportance(totals, Head(items)[1], Head(items)[2]), Tail(items))

\* the values p_test takes
Unbound == [kind |-> "unbound", num |-> <<>>, den |-> 1]
None == [kind |-> "None", num |-> <<>>, den |-> 1]
NaN == [kind |-> "nan", num |-> <<>>, den |-> 1]
Vector(v) == [kind |-> "array", num |-> v, den |-> 1]

\* the sum of the list, not divided by its length
Mean_NotDivided(ps) ==
    IF Len(ps) = 0 THEN NaN
    ELSE Vector([r \in TestRows |-> SumOver([k \in 1 .. Len(ps) |-> ps[k][r]], 1 .. Len(ps))])

\* np.mean(ps, axis=0): the elementwise sum over the list divided by its
\* length, kept as numerator and denominator; of an empty list it is nan
Mean(ps) ==
    IF Len(ps) = 0 THEN NaN
    ELSE [kind |-> "array",
          num |-> [r \in TestRows |-> SumOver([k \in 1 .. Len(ps) |-> ps[k][r]], 1 .. Len(ps))],
          den |-> Len(ps)]

\* the number of stores p_train[valid] = ... makes to position i
Stores(valid, i) == IF i \in valid THEN 1 ELSE 0

\* p_train[valid][:] = p_valid: the store goes to a copy
Scatter_IntoCopy(p, valid, pv) == p

\* a store that keeps what an earlier fold stored
Scatter_FirstWins(p, valid, pv) ==
    [i \in TrainRows |-> IF Stores(valid, i) > 0 /\ p[i] = 0 THEN pv[i] ELSE p[i]]

\* a vector allocated anew for every fold
Scatter_ClearsRest(p, valid, pv) ==
    [i \in TrainRows |-> IF Stores(valid, i) > 0 THEN pv[i] ELSE 0]

\* p_train[valid] = p_valid
Scatter(p, valid, pv) == [i \in TrainRows |-> IF Stores(valid, i) > 0 THEN pv[i] ELSE p[i]]

----------------------------------------------------------------------------
(* The splitters *)

\* the sequences of k pairs whose validation sets partition the training rows
Partitions(k) ==
    {s \in [1 .. k -> FoldPairs] :
        /\ \A a, b \in 1 .. k : a # b => s[a].valid \cap s[b].valid = {}
        /\ UNION {s[a].valid : a \in 1 .. k} = TrainRows}

\* KFold(n_splits=k, shuffle=True).split(x_train): the first n % k folds
\* have n // k + 1 validation rows, the others n // k
KFoldSplits(k) ==
    {s \in Partitions(k) : \A a \in 1 .. k :
        Cardinality(s[a].valid) =
            (NumTrain \div k) + (IF a <= NumTrain % k THEN 1 ELSE 0)}

\* StratifiedKFold(n_splits=k, shuffle=True).split(x_train, stratify): a
\* partition whose sizes depend on the classes of stratify
StratifiedKFoldSplits(k) == Partitions(k)

Iterator(s) == [pending |-> s, raises |-> FALSE]
\* a generator whose first next() raises ValueError
FailingIterator == [pending |-> <<>>, raises |-> TRUE]

----------------------------------------------------------------------------
(* The call *)

Init ==
    /\ pc = "start" /\ err = ""
    /\ print_imp \in PrintImpInputs
    /\ x_train_df \in BOOLEAN
    /\ x_test_arg \in TestSets
    /\ folds \in FoldInputs
    \* stratify is read only when folds is an integer
    /\ stratify \in (IF folds.int THEN BOOLEAN ELSE {FALSE})
    /\ skip_checks \in BOOLEAN
    /\ x_test = x_test_arg
    /\ columns = <<>> /\ columns_exists = FALSE /\ d_test = <<>>
    /\ splits = Iterator(<<>>)
    /\ p_train = EmptyMap /\ ps_test = <<>> /\ models = <<>> /\ scores = <<>>
    /\ imps = EmptyMap /\ fold_i = 0
    /\ train_kf = {} /\ valid_kf = {} /\ d_train = FALSE
    /\ mdl = NoBooster /\ imp = <<>> /\ p_valid = EmptyMap /\ p_test = Unbound
    /\ consumed = <<>> /\ writes = [i \in TrainRows |-> 0]
    /\ kfold_calls = 0 /\ trained = 0

\* the message of the assertion of line 94
ShapeError == "AssertionError: x_train and x_test have different numbers of features."

\* an exception leaves the call
Raise(e) == pc' = "raised" /\ err' = e

\* line 68
CheckPrintImp ==
    /\ pc = "start"
    /\ IF print_imp \in {"every", "final", "None"}
       THEN pc' = "columns" /\ err' = err
       ELSE Raise("AssertionError: print_imp")
    /\ UNCHANGED <<params, locals, effects>>

\* lines 70-79
TakeColumns ==
    /\ pc = "columns"
    /\ IF x_train_df
       THEN columns' = FrameColumns /\ columns_exists' = TRUE
       ELSE columns' = ArrayColumns /\ columns_exists' = FALSE
    /\ pc' = "coerce"
    /\ UNCHANGED <<err, params, x_test, d_test, splits, p_train, ps_test, models, scores,
                   imps, fold_i, train_kf, valid_kf, d_train, mdl, imp, p_valid,
                   p_test, effects>>

\* x_test[columns]: the columns named by columns, in that order
CanSelect(t, names) == t.df /\ \A j \in 1 .. Len(names) :
                           \E c \in 1 .. Len(t.cols) : t.cols[c] = names[j]
\* the test set left in its own column order
SelectColumns_KeepsOrder(t, names) == t
SelectColumns(t, names) == [t EXCEPT !.cols = names]

\* lines 81-87
CoerceTest ==
    /\ pc = "coerce"
    /\ IF x_test.given /\ columns_exists /\ ~skip_checks
       THEN IF CanSelect(x_test, columns)
            THEN /\ x_test' = SelectColumns(x_test, columns)
                 /\ pc' = "shape" /\ err' = err
            ELSE /\ Raise(IF x_test.df THEN "KeyError" ELSE "IndexError")
                 /\ x_test' = x_test
       ELSE x_test' = x_test /\ pc' = "shape" /\ err' = err
    /\ UNCHANGED <<params, columns, columns_exists, d_test, splits, p_train,
                   ps_test, models, scores, imps, fold_i, train_kf, valid_kf,
                   d_train, mdl, imp, p_valid, p_test, effects>>

\* an assertion that only rejects a test set with too few columns
ShapesAgree_AtLeast(t) == NumFeatures <= Len(t.cols)

\* the assertion of line 94
ShapesAgree(t) == NumFeatures = Len(t.cols)

\* the feature counts compared only once a fold has been trained
ShapeCheck_AfterTraining ==
    /\ pc = "shape"
    /\ IF x_test.given
       THEN /\ x_test' = [x_test EXCEPT !.df = FALSE]
            /\ d_test' = x_test.cols
            /\ IF ~skip_checks /\ ~ShapesAgree(x_test)
               THEN /\ Raise(ShapeError)
                    /\ trained' = trained + 1
               ELSE pc' = "splits" /\ err' = err /\ trained' = trained
       ELSE x_test' = x_test /\ d_test' = <<>> /\ pc' = "splits" /\ err' = err
            /\ trained' = trained
    /\ UNCHANGED <<params, columns, columns_exists, splits, p_train, ps_test, models,
                   scores, imps, fold_i, train_kf, valid_kf, d_train, mdl, imp,
                   p_valid, p_test, consumed, writes, kfold_calls>>

\* lines 89-96
ShapeCheck ==
    /\ pc = "shape"
    /\ IF x_test.given
       THEN /\ x_test' = [x_test EXCEPT !.df = FALSE]
            /\ d_test' = x_test.cols
            /\ IF ~skip_checks /\ ~ShapesAgree(x_test)
               THEN Raise(ShapeError)
               ELSE pc' = "splits" /\ err' = err
       ELSE x_test' = x_test /\ d_test' = <<>> /\ pc' = "splits" /\ err' = err
    /\ UNCHANGED <<params, columns, columns_exists, splits, p_train, ps_test, models,
                   scores, imps, fold_i, train_kf, valid_kf, d_train, mdl, imp,
                   p_valid, p_test, effects>>

\* splits = folds.split(x_train) on a pre-built sequence too
MakeIterator_Regenerates ==
    IF folds.int
    THEN IF folds.k > NumTrain
         THEN {FailingIterator}
         ELSE IF stratify
              THEN {Iterator(s) : s \in StratifiedKFoldSplits(folds.k)} \cup {FailingIterator}
              ELSE {Iterator(s) : s \in KFoldSplits(folds.k)}
    ELSE {Iterator(s) : s \in KFoldSplits(NumTrain)}

\* lines 104-113: what the for statement of line 122 will iterate
MakeIterator ==
    IF folds.int
    THEN IF folds.k > NumTrain
         THEN {FailingIterator}
         ELSE IF stratify
              THEN {Iterator(s) : s \in StratifiedKFoldSplits(folds.k)} \cup {FailingIterator}
              ELSE {Iterator(s) : s \in KFoldSplits(folds.k)}
    ELSE {Iterator(folds.seq)}

\* lines 98-121
MakeSplits ==
    /\ pc = "splits"
    /\ kfold_calls' = IF folds.int THEN kfold_calls + 1 ELSE kfold_calls
    /\ IF folds.int /\ folds.k <= 1
       THEN \* the constructor rejects n_splits
            /\ Raise("ValueError")
            /\ UNCHANGED <<splits, p_train, ps_test, models, scores, imps, fold_i>>
       ELSE /\ splits' \in MakeIterator
            /\ p_train' = [i \in TrainRows |-> 0]
            /\ ps_test' = <<>> /\ models' = <<>> /\ scores' = <<>>
            /\ imps' = EmptyMap
            /\ fold_i' = 0
            /\ pc' = "loop" /\ err' = err
    /\ UNCHANGED <<params, x_test, columns, columns_exists, d_test, train_kf, valid_kf,
                   d_train, mdl, imp, p_valid, p_test, consumed, writes, trained>>

\* line 122, when the splitter's generator rejects its arguments
SplitterRaises ==
    /\ pc = "loop" /\ splits.raises
    /\ Raise("ValueError")
    /\ UNCHANGED <<params, locals, effects>>

\* lines 122-138: the next pair, its matrices, the model trained on them
FoldTrain ==
    /\ pc = "loop" /\ ~splits.raises /\ splits.pending # <<>>
    /\ train_kf' = Head(splits.pending).train
    /\ valid_kf' = Head(splits.pending).valid
    /\ splits' = [splits EXCEPT !.pending = Tail(splits.pending)]
    /\ consumed' = Append(consumed, Head(splits.pending))
    /\ d_train' = TRUE
    /\ \E m \in Boosters :
          /\ mdl' = m
          /\ scores' = Append(scores, BestScore(m, valid_kf'))
    /\ trained' = trained + 1
    /\ pc' = "importances"
    /\ UNCHANGED <<err, params, x_test, columns, columns_exists, d_test, p_train, ps_test,
                   models, imps, fold_i, imp, p_valid, p_test, writes, kfold_calls>>

\* lines 140-146
FoldImportances ==
    /\ pc = "importances"
    /\ imp' = get_importances(mdl, columns)
    /\ imps' = Accumulate(imps, imp')
    /\ pc' = "predict"
    /\ UNCHANGED <<err, params, x_test, columns, columns_exists, d_test, splits, p_train,
                   ps_test, models, scores, fold_i, train_kf, valid_kf, d_train,
                   mdl, p_valid, p_test, effects>>

\* lines 148-151
FoldPredict ==
    /\ pc = "predict"
    /\ p_valid' = [i \in valid_kf |-> Predict(mdl, x_train(i))]
    /\ p_test' = IF x_test.given
                 THEN Vector([r \in TestRows |-> Predict(mdl, TestRow(d_test, r))])
                 ELSE p_test
    /\ pc' = "store"
    /\ UNCHANGED <<err, params, x_test, columns, columns_exists, d_test, splits, p_train,
                   ps_test, models, scores, imps, fold_i, train_kf, valid_kf,
                   d_train, mdl, imp, effects>>

\* line 151, when the backend rejects a matrix that has not the columns it
\* was trained on
FoldPredictRaises ==
    /\ pc = "predict"
    /\ x_test.given /\ Len(d_test) # NumFeatures
    /\ p_valid' = [i \in valid_kf |-> Predict(mdl, x_train(i))]
    /\ Raise("XGBoostError")
    /\ UNCHANGED <<params, x_test, columns, columns_exists, d_test, splits, p_train,
                   ps_test, models, scores, imps, fold_i, train_kf, valid_kf,
                   d_train, mdl, imp, p_test, effects>>

\* lines 153-159
FoldStore ==
    /\ pc = "store"
    /\ p_train' = Scatter(p_train, valid_kf, p_valid)
    /\ writes' = [i \in TrainRows |-> writes[i] + Stores(valid_kf, i)]
    /\ ps_test' = IF x_test.given THEN Append(ps_test, p_test.num) ELSE ps_test
    /\ models' = Append(models, mdl)
    /\ fold_i' = fold_i + 1
    /\ pc' = "loop"
    /\ UNCHANGED <<err, params, x_test, columns, columns_exists, d_test, splits, scores,
                   imps, train_kf, valid_kf, d_train, mdl, imp, p_valid, p_test,
                   consumed, kfold_calls, trained>>

\* lines 161-170, once the for statement has run out of pairs
Aggregate ==
    /\ pc = "loop" /\ ~splits.raises /\ splits.pending = <<>>
    /\ p_test' = IF x_test.given THEN Mean(ps_test) ELSE None
    /\ pc' = "cleanup"
    /\ UNCHANGED <<err, params, x_test, columns, columns_exists, d_test, splits, p_train,
                   ps_test, models, scores, imps, fold_i, train_kf, valid_kf,
                   d_train, mdl, imp, p_valid, effects>>

\* lines 172-175: del of a name no fold has bound raises UnboundLocalError
Cleanup ==
    /\ pc = "cleanup"
    /\ IF d_train
       THEN pc' = "returned" /\ err' = err
       ELSE Raise("UnboundLocalError")
    /\ UNCHANGED <<params, locals, effects>>

Next ==
    \/ CheckPrintImp
    \/ TakeColumns
    \/ CoerceTest
    \/ ShapeCheck
    \/ MakeSplits
    \/ SplitterRaises
    \/ FoldTrain
    \/ FoldImportances
    \/ FoldPredict
    \/ FoldPredictRaises
    \/ FoldStore
    \/ Aggregate
    \/ Cleanup

Spec == Init /\ [][Next]_vars

----------------------------------------------------------------------------
(* Properties *)

PrintImpValid == print_imp \in {"every", "final", "None"}
\* the positions of the call from which no fold has been started yet
BeforeLoop == {"start", "columns", "coerce", "shape", "splits"}
\* the positions line 84 precedes
AfterCoerce == {"shape", "splits", "loop", "importances", "predict", "store",
                "cleanup", "returned"}

\* fold k's prediction for row r of the test matrix the boosters are given
FoldTestPrediction(k, r) == Predict(models[k], TestRow(x_test.cols, r))
\* fold k's prediction for training row i
FoldValidPrediction(k, i) == Predict(models[k], x_train(i))
\* fold k's importance of feature f, 0 when the fold's mapping has no f
FoldImportance(k, f) ==
    LET fs == GetFscore(models[k], columns)
    IN IF f \in DOMAIN fs THEN fs[f] ELSE 0
\* the folds, of those stored so far, whose validation set holds row i
FoldsHolding(i) == {k \in 1 .. fold_i : i \in consumed[k].valid}
Last(K) == CHOOSE k \in K : \A j \in K : j <= k

\* C1: on return the test prediction is None when no test set was passed;
\* otherwise it has one entry per test row, and the entry is the mean over
\* the folds of the folds' predictions for that row.
C1_TestPredictionIsMean ==
    pc = "returned" =>
        IF ~x_test_arg.given
        THEN p_test = None
        ELSE /\ p_test.kind = "array"
             /\ DOMAIN p_test.num = TestRows
             /\ p_test.den > 0
             /\ \A r \in TestRows :
                    p_test.num[r] * Len(models) =
                        p_test.den * SumOver([k \in 1 .. Len(models) |-> FoldTestPrediction(k, r)],
                                             1 .. Len(models))

\* two folds whose test predictions differ have been averaged
C1_Witness ==
    /\ pc = "returned" /\ x_test_arg.given /\ Len(models) = 2
    /\ FoldTestPrediction(1, 1) # FoldTestPrediction(2, 1)

\* C2: the totals are empty until the first fold of a call has trained, and
\* on return the total of every feature some fold reports is the sum of the
\* folds' importances of it, a fold without the feature adding 0.
C2_ImportanceTotals ==
    /\ trained = 0 => imps = EmptyMap
    /\ pc = "returned" =>
          \A f \in UNION {DOMAIN GetFscore(models[k], columns) : k \in 1 .. Len(models)} :
              /\ f \in DOMAIN imps
              /\ imps[f] = SumOver([k \in 1 .. Len(models) |-> FoldImportance(k, f)],
                                   1 .. Len(models))

\* a feature one fold reports and another does not, next to one both report
C2_Witness ==
    /\ pc = "returned" /\ Len(models) = 2
    /\ \E f, g \in DOMAIN imps :
          /\ FoldImportance(1, f) > 0 /\ FoldImportance(2, f) = 0
          /\ FoldImportance(1, g) > 0 /\ FoldImportance(2, g) > 0

DisjointCover ==
    /\ \A a, b \in 1 .. Len(consumed) :
          a # b => consumed[a].valid \cap consumed[b].valid = {}
    /\ UNION {consumed[a].valid : a \in 1 .. Len(consumed)} = TrainRows

\* C3: the returned out-of-fold vector has one entry per training row, and
\* when the validation sets are pairwise disjoint and cover the rows, each
\* position was stored to exactly once, with the prediction of the one fold
\* that validates it.
C3_OutOfFoldWrittenOnce ==
    pc = "returned" =>
        /\ DOMAIN p_train = TrainRows
        /\ DisjointCover =>
              \A i \in TrainRows :
                  /\ writes[i] = 1
                  /\ \E k \in 1 .. Len(models) :
                        /\ i \in consumed[k].valid
                        /\ p_train[i] = FoldValidPrediction(k, i)

C3_Witness ==
    /\ pc = "returned" /\ DisjointCover /\ Len(models) = 2
    /\ models[1] # models[2]

\* a test set was passed whose column count is not the training set's, and
\* the checks are on
TestCountDiffers ==
    /\ x_test_arg.given /\ Len(x_test_arg.cols) # NumFeatures
    /\ ~skip_checks /\ PrintImpValid
\* the test set passed is a DataFrame that has every training column
HasTrainingColumns ==
    x_test_arg.df /\ \A j \in 1 .. NumFeatures :
                         \E c \in 1 .. Len(x_test_arg.cols) : x_test_arg.cols[c] = FrameColumns[j]
ReorderErrors == {"KeyError", "IndexError"}

C5_FailFast ==
    pc = "raised" /\ err \in {"AssertionError: print_imp", ShapeError} =>
        /\ trained = 0
        /\ models = <<>> /\ scores = <<>> /\ ps_test = <<>>
        /\ imps = EmptyMap

C5_Witness ==
    /\ pc = "raised" /\ err = ShapeError
    /\ x_test_arg.given /\ d_test # <<>>

IsPrefix(s, t) == Len(s) <= Len(t) /\ \A k \in 1 .. Len(s) : s[k] = t[k]

\* C6: with a pre-built sequence of k pairs no KFold is constructed, the
\* pairs are taken once each in their order, one model is trained per pair
\* taken, and a call that returns returns k models and k scores and, with a
\* test set, the mean of k test predictions.
C6_PrebuiltFoldsUsedVerbatim ==
    ~folds.int =>
        /\ kfold_calls = 0
        /\ IsPrefix(consumed, folds.seq)
        /\ pc \notin BeforeLoop \cup {"raised"} => consumed \o splits.pending = folds.seq
        /\ trained = Len(consumed)
        /\ pc = "returned" =>
              /\ consumed = folds.seq
              /\ Len(models) = Len(folds.seq) /\ Len(scores) = Len(folds.seq)
              /\ x_test_arg.given => Len(ps_test) = Len(folds.seq) /\ p_test.den = Len(folds.seq)

C6_Witness ==
    /\ ~folds.int /\ Len(folds.seq) = 2 /\ folds.seq[1] # folds.seq[2]
    /\ x_test_arg.given /\ pc = "returned"

\* C7: a fold source that yields no fold makes the call fail with a
\* SplitExhaustion error; the call never goes on to aggregate over no fold.
C7_ZeroFoldsRejected ==
    LET \* the for statement has found the fold source empty
        ZeroFolds == /\ DOMAIN p_train = TrainRows
                     /\ ~splits.raises /\ splits.pending = <<>> /\ consumed = <<>>
    IN ZeroFolds =>
          /\ pc \notin {"cleanup", "returned"}
          /\ pc = "raised" => err = "SplitExhaustion"

IsPermutation(s, t) ==
    /\ Len(s) = Len(t)
    /\ \A j \in 1 .. Len(t) : \E c \in 1 .. Len(s) : s[c] = t[j]
    /\ \A a, b \in 1 .. Len(s) : s[a] = s[b] => a = b

\* C8: with a named training set and the checks on, a test set whose named
\* columns are a permutation of the training columns passes the checks with
\* column j being training column j, and every test prediction is made on
\* the columns in that order; a test set that cannot be indexed by the
\* training columns fails with the reorder error; with skip_checks or an
\* unnamed training set the columns stay as passed.
C8_TestColumnsReordered ==
    x_test_arg.given /\ PrintImpValid =>
        IF x_train_df /\ ~skip_checks
        THEN /\ x_test_arg.df /\ IsPermutation(x_test_arg.cols, FrameColumns) =>
                  /\ err \notin ReorderErrors \cup {ShapeError}
                  /\ pc \in AfterCoerce => x_test.cols = FrameColumns
                  /\ \A k \in 1 .. Len(ps_test) : \A r \in TestRows :
                        ps_test[k][r] = Predict(models[k], TestRow(FrameColumns, r))
             /\ ~HasTrainingColumns =>
                  /\ pc \notin AfterCoerce
                  /\ pc = "raised" => err \in ReorderErrors
        ELSE /\ x_test.cols = x_test_arg.cols
             /\ err \notin ReorderErrors

\* a permuted test set was reordered and predicted on
C8_Witness ==
    /\ x_train_df /\ ~skip_checks /\ x_test_arg.df
    /\ x_test_arg.cols = <<"f2", "f1">>
    /\ pc = "returned" /\ x_test.cols = FrameColumns /\ Len(ps_test) = 2

\* C9: a row that two or more stored folds validate holds the prediction of
\* the last of them, and the call returns.
C9_LastWriteWins ==
    pc \in {"loop", "cleanup", "returned"} =>
        \A i \in TrainRows :
            Cardinality(FoldsHolding(i)) >= 2 =>
                /\ p_train[i] = FoldValidPrediction(Last(FoldsHolding(i)), i)
                /\ pc = "cleanup" => d_train

\* two folds validate row 0 and predict it differently
C9_Witness ==
    /\ pc = "returned" /\ FoldsHolding(0) = {1, 2}
    /\ FoldValidPrediction(1, 0) # FoldValidPrediction(2, 0)
    /\ err = ""

\* the rows no stored fold validates
Unvalidated == {i \in TrainRows : FoldsHolding(i) = {}}

\* C10: from the allocation of the out-of-fold vector on, a row no stored
\* fold validates holds 0; the store of a fold's predictions changes the
\* positions of its validation set only, and nothing else changes the vector.
C10_UntouchedRowsStayZero ==
    /\ [](DOMAIN p_train = TrainRows => \A i \in Unvalidated : p_train[i] = 0)
    /\ [][/\ pc = "store" => \A i \in TrainRows \ valid_kf : p_train'[i] = p_train[i]
          /\ pc \notin {"splits", "store"} => p_train' = p_train]_vars

\* after the last fold a row is still unvalidated although another was stored
C10_Witness ==
    /\ pc = "returned" /\ Unvalidated # {} /\ Unvalidated # TrainRows
    /\ fold_i = 2

====
